---- MODULE Spec2Model ----
(***************************************************************************)
(* Lesson2/Chess.py: the pieces (Pawn, Rook, Bishop), their move           *)
(* generation and attack tests, and the ChessBoard that places and moves   *)
(* them.  Pieces are Python objects: the board's cells hold references     *)
(* (here: identities 1..Len(pieces)) and a piece's colour and position are *)
(* fields of the object.                                                   *)
(***************************************************************************)
EXTENDS Integers, Sequences, FiniteSets, TLC

VARIABLES
    pieces,   \* the ChessPiece objects constructed so far: kind, color, position
    board,    \* ChessBoard.board: board[y][x] is a piece identity or None
    call,     \* the last call made and its arguments
    printed,  \* what that call printed
    raised,   \* the exception that call ended with ("" when it returned)
    moves,    \* the list a get_possible_moves call returned
    attack,   \* the boolean a can_attack call returned
    path,     \* the is_path_clear call a can_attack call made: step and cells read
    before    \* pieces and board as they were when the last call began

vars == <<pieces, board, call, printed, raised, moves, attack, path, before>>

----------------------------------------------------------------------------
(* Program constants and the bounds of the model *)

\* the board is N x N
N == 8

\* Spec: how many ChessPiece objects are constructed
MaxPieces == 2

\* Spec: the calls name squares of the corner 0..Span-1 x 0..Span-1
Span == 2

\* SpecQuery: how many other pieces stand around the piece asked
MaxOthers == 2

\* SpecQuery: how far from the piece asked they stand, and the targets lie
Reach == 2

None == 0

WHITE == "Color.WHITE"
BLACK == "Color.BLACK"
Color == {WHITE, BLACK}

Kinds == {"Pawn", "Rook", "Bishop"}

Rows == 0 .. (N - 1)

Squares == Rows \X Rows

\* what a caller may pass where a coordinate is expected: the board's
\* coordinates and one step beyond each edge
Wide == (0 - 1) .. N

Targets == Wide \X Wide

----------------------------------------------------------------------------
(* Python values *)

Return(v) == [exc |-> "", value |-> v]

Raise(e) == [exc |-> e, value |-> FALSE]

NoPath == [called |-> FALSE, step |-> <<0, 0>>, read |-> << >>, reached |-> FALSE]

WithPath(r, p) == [exc |-> r.exc, value |-> r.value, path |-> p]

\* list[i] on a list of N items: a negative index counts from the end,
\* anything outside -N..N-1 raises IndexError (here: N, no valid index)
ListIndex(i) ==
    IF i >= 0 /\ i < N THEN i
    ELSE IF i < 0 /\ i >= 0 - N THEN i + N
    ELSE N

\* board[y][x] as Python evaluates it
Cell(b, x, y) ==
    IF ListIndex(y) = N \/ ListIndex(x) = N THEN Raise("IndexError")
    ELSE Return(b[ListIndex(y)][ListIndex(x)])

EmptyBoard == [y \in Rows |-> [x \in Rows |-> None]]

----------------------------------------------------------------------------
(* ChessPiece *)

\* the walk of is_path_clear from (cx, cy): its outcome and the coordinates it
\* indexes the board with
RECURSIVE PathWalk(_, _, _, _, _, _, _, _)
PathWalk(b, cx, cy, x, y, dx, dy, read) ==
    IF <<cx, cy>> = <<x, y>> THEN [exc |-> "", value |-> TRUE, read |-> read]
    ELSE LET c == Cell(b, cx, cy)
             seen == Append(read, <<cx, cy>>)
         IN IF c.exc # "" THEN [exc |-> c.exc, value |-> FALSE, read |-> seen]
            ELSE IF c.value # None
            THEN [exc |-> "", value |-> FALSE, read |-> seen]
            ELSE PathWalk(b, cx + dx, cy + dy, x, y, dx, dy, seen)

\* a path test that never looks at the squares on the way
is_path_clear_unseen(ps, b, self, x, y, dx, dy) ==
    [exc |-> "", value |-> TRUE, read |-> << >>]

is_path_clear(ps, b, self, x, y, dx, dy) ==
    LET px == ps[self].position[1]
        py == ps[self].position[2]
    IN PathWalk(b, px + dx, py + dy, x, y, dx, dy, << >>)

----------------------------------------------------------------------------
(* Pawn *)

Pawn_direction(ps, self) == IF ps[self].color = "white" THEN 1 ELSE 0 - 1

\* a pawn that takes whatever stands diagonally ahead, its own side's too
Pawn_diagonal_any_colour(ps, b, self, nx, ny) ==
    IF 0 <= nx /\ nx < N /\ 0 <= ny /\ ny < N /\ b[ny][nx] # None
    THEN << <<nx, ny>> >>
    ELSE << >>

Pawn_diagonal(ps, b, self, nx, ny) ==
    IF 0 <= nx /\ nx < N /\ 0 <= ny /\ ny < N
       /\ b[ny][nx] # None /\ ps[b[ny][nx]].color # ps[self].color
    THEN << <<nx, ny>> >>
    ELSE << >>

\* a pawn that steps forward without asking whether the board goes on
Pawn_get_possible_moves_unbounded(ps, b, self) ==
    LET x == ps[self].position[1]
        y == ps[self].position[2]
        direction == Pawn_direction(ps, self)
        ahead == Cell(b, x, y + direction)
        forward == IF ahead.exc = "" /\ ahead.value = None
                   THEN << <<x, y + direction>> >>
                   ELSE << >>
    IN forward \o Pawn_diagonal(ps, b, self, x - 1, y + direction)
               \o Pawn_diagonal(ps, b, self, x + 1, y + direction)

Pawn_get_possible_moves(ps, b, self) ==
    LET x == ps[self].position[1]
        y == ps[self].position[2]
        direction == Pawn_direction(ps, self)
        forward == IF 0 <= y + direction /\ y + direction < N
                      /\ b[y + direction][x] = None
                   THEN << <<x, y + direction>> >>
                   ELSE << >>
    IN forward \o Pawn_diagonal(ps, b, self, x - 1, y + direction)
               \o Pawn_diagonal(ps, b, self, x + 1, y + direction)

Pawn_can_attack(ps, b, self, x, y) ==
    IF ~(0 <= x /\ x < N /\ 0 <= y /\ y < N) THEN Return(FALSE)
    ELSE LET px == ps[self].position[1]
             py == ps[self].position[2]
             direction == Pawn_direction(ps, self)
         IN IF (x = px - 1 \/ x = px + 1) /\ y = py + direction
            THEN LET target == Cell(b, x, y) IN
                 IF target.exc # "" THEN Raise(target.exc)
                 ELSE Return(target.value # None
                             /\ ps[target.value].color # ps[self].color)
            ELSE Return(FALSE)

----------------------------------------------------------------------------
(* Rook and Bishop: the walk of one direction, lines 197-209 and 257-269 *)

\* a walk that takes an opposing piece and walks on
RECURSIVE Slide_through(_, _, _, _, _, _, _)
Slide_through(ps, b, self, nx, ny, dx, dy) ==
    IF ~(0 <= nx /\ nx < N /\ 0 <= ny /\ ny < N) THEN << >>
    ELSE LET target == b[ny][nx] IN
         IF target = None \/ ps[target].color # ps[self].color
         THEN << <<nx, ny>> >>
              \o Slide_through(ps, b, self, nx + dx, ny + dy, dx, dy)
         ELSE << >>

\* a walk that takes the first piece in its way, whichever side it is on
RECURSIVE Slide_onto_own(_, _, _, _, _, _, _)
Slide_onto_own(ps, b, self, nx, ny, dx, dy) ==
    IF ~(0 <= nx /\ nx < N /\ 0 <= ny /\ ny < N) THEN << >>
    ELSE LET target == b[ny][nx] IN
         IF target = None
         THEN << <<nx, ny>> >>
              \o Slide_onto_own(ps, b, self, nx + dx, ny + dy, dx, dy)
         ELSE << <<nx, ny>> >>

RECURSIVE Slide(_, _, _, _, _, _, _)
Slide(ps, b, self, nx, ny, dx, dy) ==
    IF ~(0 <= nx /\ nx < N /\ 0 <= ny /\ ny < N) THEN << >>
    ELSE LET target == b[ny][nx] IN
         IF target = None
         THEN << <<nx, ny>> >> \o Slide(ps, b, self, nx + dx, ny + dy, dx, dy)
         ELSE IF ps[target].color # ps[self].color THEN << <<nx, ny>> >>
         ELSE << >>

RECURSIVE SlideAll(_, _, _, _)
SlideAll(ps, b, self, directions) ==
    IF directions = << >> THEN << >>
    ELSE LET d == Head(directions)
             x == ps[self].position[1]
             y == ps[self].position[2]
         IN Slide(ps, b, self, x + d[1], y + d[2], d[1], d[2])
            \o SlideAll(ps, b, self, Tail(directions))

Rook_directions == << <<1, 0>>, <<0 - 1, 0>>, <<0, 1>>, <<0, 0 - 1>> >>

Rook_get_possible_moves(ps, b, self) == SlideAll(ps, b, self, Rook_directions)

\* the tail of Rook.can_attack and Bishop.can_attack: the path, then the target
AttackAlong(ps, b, self, x, y, dx, dy) ==
    LET clear == is_path_clear(ps, b, self, x, y, dx, dy)
        walked == [called |-> TRUE, step |-> <<dx, dy>>, read |-> clear.read,
                   reached |-> clear.exc = "" /\ clear.value]
    IN IF clear.exc # "" THEN WithPath(Raise(clear.exc), walked)
       ELSE IF ~clear.value THEN WithPath(Return(FALSE), walked)
       ELSE LET target == Cell(b, x, y) IN
            IF target.exc # "" THEN WithPath(Raise(target.exc), walked)
            ELSE WithPath(Return(target.value # None
                                 /\ ps[target.value].color # ps[self].color),
                          walked)

Rook_step(ps, self, x, y) ==
    LET px == ps[self].position[1]
        py == ps[self].position[2]
    IN << IF x = px THEN 0 ELSE (IF x > px THEN 1 ELSE 0 - 1),
          IF y = py THEN 0 ELSE (IF y > py THEN 1 ELSE 0 - 1) >>

Rook_can_attack(ps, b, self, x, y) ==
    LET px == ps[self].position[1]
        py == ps[self].position[2]
        step == Rook_step(ps, self, x, y)
    IN IF x # px /\ y # py THEN WithPath(Return(FALSE), NoPath)
       ELSE AttackAlong(ps, b, self, x, y, step[1], step[2])

Bishop_directions == << <<0 - 1, 1>>, <<1, 1>>, <<1, 0 - 1>>, <<0 - 1, 0 - 1>> >>

Bishop_get_possible_moves(ps, b, self) ==
    SlideAll(ps, b, self, Bishop_directions)

Abs(n) == IF n < 0 THEN 0 - n ELSE n

Bishop_step(ps, self, x, y) ==
    LET dx == x - ps[self].position[1]
        dy == y - ps[self].position[2]
    IN << IF dx > 0 THEN 1 ELSE 0 - 1, IF dy > 0 THEN 1 ELSE 0 - 1 >>

Bishop_can_attack(ps, b, self, x, y) ==
    LET dx == x - ps[self].position[1]
        dy == y - ps[self].position[2]
        step == Bishop_step(ps, self, x, y)
    IN IF Abs(dx) # Abs(dy) THEN WithPath(Return(FALSE), NoPath)
       ELSE AttackAlong(ps, b, self, x, y, step[1], step[2])

----------------------------------------------------------------------------
(* dispatch on the object's class *)

get_possible_moves(ps, b, self) ==
    CASE ps[self].kind = "Pawn" -> Pawn_get_possible_moves(ps, b, self)
      [] ps[self].kind = "Rook" -> Rook_get_possible_moves(ps, b, self)
      [] ps[self].kind = "Bishop" -> Bishop_get_possible_moves(ps, b, self)

can_attack(ps, b, self, x, y) ==
    CASE ps[self].kind = "Pawn" ->
             WithPath(Pawn_can_attack(ps, b, self, x, y), NoPath)
      [] ps[self].kind = "Rook" -> Rook_can_attack(ps, b, self, x, y)
      [] ps[self].kind = "Bishop" -> Bishop_can_attack(ps, b, self, x, y)

Range(s) == {s[i] : i \in 1 .. Len(s)}

----------------------------------------------------------------------------
(* The calls.  Every call records itself in call, what it found in before,  *)
(* and resets the outputs of the call before it.                           *)

NoSquare == <<0, 0>>

Called(op, piece, from, to) ==
    [op |-> op, piece |-> piece, from |-> from, to |-> to]

\* ChessPiece.__init__, lines 52-55: Pawn(color, position) and the like
Construct(kind, color, position) ==
    /\ Len(pieces) < MaxPieces
    /\ call' = Called("__init__", 0, position, NoSquare)
    /\ before' = [pieces |-> pieces, board |-> board]
    /\ IF color \notin Color
       THEN /\ raised' = "ValueError"
            /\ pieces' = pieces
       ELSE /\ raised' = ""
            /\ pieces' = Append(pieces, [kind |-> kind, color |-> color,
                                          position |-> position])
    /\ printed' = ""
    /\ moves' = << >>
    /\ attack' = FALSE
    /\ path' = NoPath
    /\ UNCHANGED board

\* ChessBoard.place_piece, lines 320-321
place_piece(piece) ==
    LET x == pieces[piece].position[1]
        y == pieces[piece].position[2]
    IN /\ board' = [board EXCEPT ![y][x] = piece]
       /\ call' = Called("place_piece", piece, pieces[piece].position, NoSquare)
       /\ before' = [pieces |-> pieces, board |-> board]
       /\ printed' = ""
       /\ raised' = ""
       /\ moves' = << >>
       /\ attack' = FALSE
       /\ path' = NoPath
       /\ UNCHANGED pieces

\* a move that forgets to empty the square it leaves
ApplyMove_keeps_source(b, ps, piece, from_pos, to_pos) ==
    [board |-> [b EXCEPT ![to_pos[2]][to_pos[1]] = piece],
     pieces |-> [ps EXCEPT ![piece].position = to_pos]]

\* a move that forgets to tell the piece where it stands now
ApplyMove_keeps_position(b, ps, piece, from_pos, to_pos) ==
    [board |-> [[b EXCEPT ![to_pos[2]][to_pos[1]] = piece]
                   EXCEPT ![from_pos[2]][from_pos[1]] = None],
     pieces |-> ps]

\* the three assignments of a legal move, lines 340-342
ApplyMove(b, ps, piece, from_pos, to_pos) ==
    [board |-> [[b EXCEPT ![to_pos[2]][to_pos[1]] = piece]
                   EXCEPT ![from_pos[2]][from_pos[1]] = None],
     pieces |-> [ps EXCEPT ![piece].position = to_pos]]

\* a legality test that lets a piece go to any square of the board
is_possible_anywhere(ps, b, piece, to_pos) == to_pos \in Squares

\* "to_pos in possible_moves", lines 337-338
is_possible(ps, b, piece, to_pos) ==
    to_pos \in Range(get_possible_moves(ps, b, piece))

\* ChessBoard.move_piece, lines 329-344
move_piece(from_pos, to_pos) ==
    LET piece == board[from_pos[2]][from_pos[1]] IN
    /\ call' = Called("move_piece", piece, from_pos, to_pos)
    /\ before' = [pieces |-> pieces, board |-> board]
    /\ IF piece = None
       THEN /\ printed' = "no piece on the square"
            /\ UNCHANGED <<board, pieces>>
       ELSE IF is_possible(pieces, board, piece, to_pos)
       THEN LET after == ApplyMove(board, pieces, piece, from_pos, to_pos) IN
            /\ printed' = "moving"
            /\ board' = after.board
            /\ pieces' = after.pieces
       ELSE /\ printed' = "cannot move there"
            /\ UNCHANGED <<board, pieces>>
    /\ raised' = ""
    /\ moves' = << >>
    /\ attack' = FALSE
    /\ path' = NoPath

\* piece.get_possible_moves(board)
GetPossibleMoves(piece) ==
    /\ call' = Called("get_possible_moves", piece, pieces[piece].position, NoSquare)
    /\ before' = [pieces |-> pieces, board |-> board]
    /\ moves' = get_possible_moves(pieces, board, piece)
    /\ printed' = ""
    /\ raised' = ""
    /\ attack' = FALSE
    /\ path' = NoPath
    /\ UNCHANGED <<pieces, board>>

\* piece.can_attack(x, y, board)
CanAttack(piece, x, y) ==
    LET r == can_attack(pieces, board, piece, x, y) IN
    /\ call' = Called("can_attack", piece, pieces[piece].position, <<x, y>>)
    /\ before' = [pieces |-> pieces, board |-> board]
    /\ raised' = r.exc
    /\ attack' = r.value
    /\ path' = r.path
    /\ printed' = ""
    /\ moves' = << >>
    /\ UNCHANGED <<pieces, board>>

----------------------------------------------------------------------------
(* Spec: a board built and played by place_piece and move_piece calls.     *)
(* The squares the calls name lie in the corner 0..Span-1 of the board;    *)
(* the destinations are also squares just off each of the board's edges.   *)

Corner == 0 .. (Span - 1)

NewSquares == Corner \X Corner

OffBoard == {<<0 - 1, 0>>, <<0, 0 - 1>>, <<N, 0>>, <<0, N>>}

ToSquares == NewSquares \cup OffBoard

Init ==
    /\ pieces = << >>
    /\ board = EmptyBoard
    /\ call = Called("ChessBoard", 0, NoSquare, NoSquare)
    /\ printed = ""
    /\ raised = ""
    /\ moves = << >>
    /\ attack = FALSE
    /\ path = NoPath
    /\ before = [pieces |-> pieces, board |-> board]

DoConstruct ==
    \E kind \in Kinds, color \in Color \cup {"blue"}, position \in NewSquares :
        Construct(kind, color, position)

DoPlace == \E piece \in 1 .. Len(pieces) : place_piece(piece)

DoMove ==
    \E from_pos \in NewSquares, to_pos \in ToSquares :
        move_piece(from_pos, to_pos)

Next == DoConstruct \/ DoPlace \/ DoMove

Spec == Init /\ [][Next]_vars

----------------------------------------------------------------------------
(* SpecQuery: one query on a given position.  A piece of any kind and      *)
(* colour stands on any square; up to MaxOthers other pieces stand within  *)
(* Reach squares of it on its ranks, files and diagonals (the queries read *)
(* only their colour).  The queries change nothing, so one query per       *)
(* behaviour shows all there is.                                           *)

SquareNo(sq) == sq[2] * N + sq[1]

\* the squares on the ranks, files and diagonals through pos, Reach steps far
Near(pos) ==
    {sq \in Squares :
        /\ sq # pos
        /\ Abs(sq[1] - pos[1]) <= Reach
        /\ Abs(sq[2] - pos[2]) <= Reach
        /\ \/ sq[1] = pos[1]
           \/ sq[2] = pos[2]
           \/ Abs(sq[1] - pos[1]) = Abs(sq[2] - pos[2])}

\* the strictly increasing sequences of at most n squares of S
RECURSIVE IncSeqs(_, _)
IncSeqs(S, n) ==
    IF n = 0 THEN {<< >>}
    ELSE LET shorter == IncSeqs(S, n - 1) IN
         shorter \cup
         UNION {{Append(s, q) :
                   q \in {r \in S : s = << >> \/ SquareNo(r) > SquareNo(s[Len(s)])}} :
                s \in {t \in shorter : Len(t) = n - 1}}

PlaceAll(ps) ==
    [y \in Rows |-> [x \in Rows |->
        IF \E i \in 1 .. Len(ps) : ps[i].position = <<x, y>>
        THEN CHOOSE i \in 1 .. Len(ps) : ps[i].position = <<x, y>>
        ELSE None]]

\* two other pieces stand both next to pos, or on one line through pos
Together(pos, sq1, sq2) ==
    \/ /\ Abs(sq1[1] - pos[1]) <= 1 /\ Abs(sq1[2] - pos[2]) <= 1
       /\ Abs(sq2[1] - pos[1]) <= 1 /\ Abs(sq2[2] - pos[2]) <= 1
    \/ (sq1[1] - pos[1]) * (sq2[2] - pos[2])
          = (sq1[2] - pos[2]) * (sq2[1] - pos[1])

Arrangements(pos) ==
    {others \in IncSeqs(Near(pos), MaxOthers) :
        \A i, j \in 1 .. Len(others) : Together(pos, others[i], others[j])}

QInit ==
    /\ \E kind \in Kinds, color \in Color, position \in Squares :
         \E others \in Arrangements(position) :
            \E colors \in [1 .. Len(others) -> Color] :
               pieces = <<[kind |-> kind, color |-> color, position |-> position]>>
                        \o [i \in 1 .. Len(others) |->
                              [kind |-> "Pawn", color |-> colors[i],
                               position |-> others[i]]]
    /\ board = PlaceAll(pieces)
    /\ call = Called("ChessBoard", 0, NoSquare, NoSquare)
    /\ printed = ""
    /\ raised = ""
    /\ moves = << >>
    /\ attack = FALSE
    /\ path = NoPath
    /\ before = [pieces |-> pieces, board |-> board]

QMoves == call.op = "ChessBoard" /\ GetPossibleMoves(1)

\* the targets asked about: the squares as far as the other pieces stand,
\* those just off the board's edge among them
QTargets(pos) ==
    {t \in Targets : Abs(t[1] - pos[1]) <= Reach /\ Abs(t[2] - pos[2]) <= Reach}

QAttack ==
    /\ call.op = "ChessBoard"
    /\ \E t \in QTargets(pieces[1].position) : CanAttack(1, t[1], t[2])

QNext == QMoves \/ QAttack

SpecQuery == QInit /\ [][QNext]_vars

----------------------------------------------------------------------------
(* What the claims speak of *)

At(b, sq) == b[sq[2]][sq[1]]

Occupied(b) == {sq \in Squares : At(b, sq) # None}

\* the last call was move_piece on a square that held a piece, to one of that
\* piece's possible moves on the board as it was
LegalMoveCalled ==
    /\ call.op = "move_piece"
    /\ At(before.board, call.from) # None
    /\ call.to \in Range(get_possible_moves(before.pieces, before.board,
                                             At(before.board, call.from)))

\* the last call was move_piece from an empty square or to a square that was
\* none of the piece's possible moves
IllegalMoveCalled ==
    /\ call.op = "move_piece"
    /\ \/ At(before.board, call.from) = None
       \/ call.to \notin Range(get_possible_moves(before.pieces, before.board,
                                                  At(before.board, call.from)))

\* C1: a successful move_piece(from, to) empties from, puts the moved piece p
\* on to with p.position = to, leaves a piece that stood on to in no cell, and
\* changes no other cell.
C1_MoveApplied ==
    LegalMoveCalled =>
        LET from == call.from
            to == call.to
            p == At(before.board, from)
            taken == At(before.board, to)
        IN /\ to \in Squares
           /\ At(board, from) = None
           /\ At(board, to) = p
           /\ pieces[p].position = to
           /\ taken # None => \A sq \in Squares : At(board, sq) # taken
           /\ \A sq \in Squares \ {from, to} : At(board, sq) = At(before.board, sq)
           /\ printed = "moving"

\* a move has just captured: the moved piece stands on the destination, where
\* another object still believes itself to be
C1_Witness ==
    /\ call.op = "move_piece"
    /\ printed = "moving"
    /\ At(board, call.to) = call.piece
    /\ At(board, call.from) = None
    /\ \E q \in 1 .. Len(pieces) : q # call.piece /\ pieces[q].position = call.to

\* C2: a move_piece(from, to) that fails, for want of a piece on from or
\* because to is no possible move, is reported and changes no cell and no
\* piece's position, for every from on the board and every to.
C2_FailedMoveChangesNothing ==
    IllegalMoveCalled =>
        /\ printed = IF At(before.board, call.from) = None
                     THEN "no piece on the square"
                     ELSE "cannot move there"
        /\ board = before.board
        /\ pieces = before.pieces

\* a piece on the board was asked to move to a square off the board
C2_Witness ==
    /\ call.op = "move_piece"
    /\ printed = "cannot move there"
    /\ call.to \notin Squares
    /\ At(board, call.from) = call.piece
    /\ call.piece # None

\* C3: on every board built by place_piece and move_piece calls no piece is
\* stored in two cells, and the piece stored in board[y][x] has position (x, y).
C3_BoardInSync ==
    /\ \A sq \in Occupied(board) : pieces[At(board, sq)].position = sq
    /\ \A sq1, sq2 \in Occupied(board) :
          At(board, sq1) = At(board, sq2) => sq1 = sq2

\* a piece has been placed on a square where another piece stood, which now
\* is in no cell although its position still names the square
C3_Witness ==
    /\ call.op = "place_piece"
    /\ At(before.board, call.from) \notin {None, call.piece}
    /\ At(board, call.from) = call.piece
    /\ pieces[At(before.board, call.from)].position = call.from
    /\ \A sq \in Squares : At(board, sq) # At(before.board, call.from)

\* C4: place_piece on a square that holds another piece fails with
\* OccupiedSquare and leaves the board as it was.
C4_PlaceOnOccupiedFails ==
    (/\ call.op = "place_piece"
     /\ At(before.board, call.from) # None
     /\ At(before.board, call.from) # call.piece)
    => /\ raised = "OccupiedSquare"
       /\ board = before.board

----------------------------------------------------------------------------
(* The queries, stated from the rules of the game *)

Sign(n) == IF n > 0 THEN 1 ELSE IF n < 0 THEN 0 - 1 ELSE 0

Max(a, b) == IF a > b THEN a ELSE b

Step(pos, d, k) == <<pos[1] + k * d[1], pos[2] + k * d[2]>>

Empty(sq) == At(board, sq) = None

\* sq holds a piece of the other colour than the piece asked
Enemy(sq) ==
    /\ At(board, sq) # None
    /\ pieces[At(board, sq)].color # pieces[call.piece].color

Asked == pieces[call.piece]

Lines(kind) ==
    IF kind = "Rook"
    THEN {<<1, 0>>, <<0 - 1, 0>>, <<0, 1>>, <<0, 0 - 1>>}
    ELSE {<<1, 1>>, <<1, 0 - 1>>, <<0 - 1, 1>>, <<0 - 1, 0 - 1>>}

\* the squares strictly between pos and to, to lying on a line through pos
Between(pos, to) ==
    LET d == <<Sign(to[1] - pos[1]), Sign(to[2] - pos[2])>>
        far == Max(Abs(to[1] - pos[1]), Abs(to[2] - pos[2]))
    IN {Step(pos, d, j) : j \in 1 .. (far - 1)}

OnLine(kind, pos, to) ==
    IF kind = "Rook"
    THEN to[1] = pos[1] \/ to[2] = pos[2]
    ELSE Abs(to[1] - pos[1]) = Abs(to[2] - pos[2])

\* C5: a Pawn's possible moves are the square ahead (White: rank + 1, Black:
\* rank - 1) iff it is on the board and empty, and each square diagonally
\* ahead iff it is on the board and holds a piece of the other colour.
C5_PawnMoves ==
    (call.op = "get_possible_moves" /\ Asked.kind = "Pawn") =>
        LET x == Asked.position[1]
            y == Asked.position[2]
            d == IF Asked.color = WHITE THEN 1 ELSE 0 - 1
        IN Range(moves) =
             {sq \in {<<x, y + d>>} : sq \in Squares /\ Empty(sq)}
             \cup {sq \in {<<x - 1, y + d>>, <<x + 1, y + d>>} :
                      sq \in Squares /\ Enemy(sq)}

\* C6: a Rook's or Bishop's possible moves are, along each of its four
\* directions, the empty squares before the first occupied one and that one
\* iff it holds a piece of the other colour, nothing beyond; a Rook alone on
\* the board at (0,0) has the 14 other squares of its rank and file.
C6_SlidingMoves ==
    (call.op = "get_possible_moves" /\ Asked.kind \in {"Rook", "Bishop"}) =>
        LET pos == Asked.position IN
        /\ Range(moves) =
             UNION {{Step(pos, d, k) : k \in
                       {k \in 1 .. (N - 1) :
                          /\ Step(pos, d, k) \in Squares
                          /\ \A j \in 1 .. (k - 1) : Empty(Step(pos, d, j))
                          /\ Empty(Step(pos, d, k)) \/ Enemy(Step(pos, d, k))}} :
                    d \in Lines(Asked.kind)}
        /\ (Asked.kind = "Rook" /\ pos = <<0, 0>> /\ Len(pieces) = 1) =>
              /\ Len(moves) = 2 * (N - 1)
              /\ Range(moves) =
                   {sq \in Squares : sq # pos /\ (sq[1] = 0 \/ sq[2] = 0)}

\* a Rook was asked for its moves with an opposing piece next to it on a line
\* and another piece right behind that one
C6_Witness ==
    /\ call.op = "get_possible_moves"
    /\ Asked.kind = "Rook"
    /\ \E d \in Lines("Rook") :
          /\ Step(Asked.position, d, 2) \in Squares
          /\ Enemy(Step(Asked.position, d, 1))
          /\ ~Empty(Step(Asked.position, d, 2))
          /\ Step(Asked.position, d, 1) \in Range(moves)

\* C7: every square get_possible_moves returns, for any piece anywhere, is on
\* the board and is not the piece's own square.
C7_MovesOnBoard ==
    call.op = "get_possible_moves" =>
        \A i \in 1 .. Len(moves) :
            moves[i] \in Squares /\ moves[i] # Asked.position

\* a Pawn in the corner (0,0), with no rank left ahead of it, was asked for
\* its moves
C7_Witness ==
    /\ call.op = "get_possible_moves"
    /\ Asked.kind = "Pawn"
    /\ Asked.position = <<0, 0>>
    /\ moves = << >>

\* C8: for a Rook or Bishop and a target on the board other than its own
\* square, can_attack is true iff the target is on one of the piece's lines,
\* every square strictly between is empty, and the target holds a piece of
\* the other colour.
C8_SlidingAttack ==
    (/\ call.op = "can_attack"
     /\ Asked.kind \in {"Rook", "Bishop"}
     /\ call.to \in Squares
     /\ call.to # Asked.position) =>
        /\ raised = ""
        /\ attack <=> (/\ OnLine(Asked.kind, Asked.position, call.to)
                       /\ \A sq \in Between(Asked.position, call.to) : Empty(sq)
                       /\ Enemy(call.to))

\* a Bishop was asked about an opposing piece on its diagonal behind another
\* piece, and said no
C8_Witness ==
    /\ call.op = "can_attack"
    /\ Asked.kind = "Bishop"
    /\ call.to \in Squares
    /\ OnLine("Bishop", Asked.position, call.to)
    /\ Enemy(call.to)
    /\ \E sq \in Between(Asked.position, call.to) : ~Empty(sq)
    /\ raised = ""
    /\ ~attack

\* C9: for a target off the board can_attack returns false, for every piece:
\* it neither returns true nor raises IndexError.
C9_OffBoardTargetRejected ==
    (call.op = "can_attack" /\ call.to \notin Squares) =>
        /\ raised = ""
        /\ ~attack

\* C10: every is_path_clear call of Rook.can_attack and Bishop.can_attack for
\* a target on the board, the piece's own square included, is given the step
\* (sign(x - px), sign(y - py)), indexes the board only with squares of the
\* board, and returns a boolean.
C10_PathStepIsSign ==
    (call.op = "can_attack" /\ path.called /\ call.to \in Squares) =>
        /\ path.step = <<Sign(call.to[1] - Asked.position[1]),
                         Sign(call.to[2] - Asked.position[2])>>
        /\ Range(path.read) \subseteq Squares
        /\ raised = ""

----------------------------------------------------------------------------
(* The two queries against each other, and the count of pieces over moves *)

\* the piece asked would take what stands on sq: sq is one of its possible
\* moves on this board and is occupied
CaptureMove(sq) ==
    /\ sq \in Range(get_possible_moves(pieces, board, call.piece))
    /\ ~Empty(sq)

\* C11: for a piece of any kind and colour anywhere and a target on the board
\* other than its own square, can_attack(x, y, board) is true iff (x, y) is
\* among get_possible_moves(board) and the cell (x, y) is occupied.
C11_AttackIsCaptureMove ==
    (/\ call.op = "can_attack"
     /\ call.to \in Squares
     /\ call.to # Asked.position) =>
        /\ raised = ""
        /\ attack <=> CaptureMove(call.to)

\* a Pawn was asked about an opposing piece diagonally ahead of it and said
\* yes, that square being one of its moves, while the occupied square straight
\* ahead of it is none
C11_Witness ==
    /\ call.op = "can_attack"
    /\ Asked.kind = "Pawn"
    /\ call.to \in Squares
    /\ Abs(call.to[1] - Asked.position[1]) = 1
    /\ Enemy(call.to)
    /\ attack
    /\ CaptureMove(call.to)
    /\ ~Empty(<<Asked.position[1], call.to[2]>>)
    /\ ~CaptureMove(<<Asked.position[1], call.to[2]>>)

\* the pieces that stood on the board before the last call and stand on it
\* no more
Removed ==
    {At(before.board, sq) : sq \in Occupied(before.board)}
        \ {At(board, sq) : sq \in Occupied(board)}

\* C12: over any sequence of calls, a move_piece call never adds to the number
\* of pieces on the board; a failed one leaves it, a successful one lowers it
\* by exactly one iff the destination was occupied and leaves it otherwise,
\* and the piece removed is the one that stood on the destination and has the
\* other colour than the piece moved.
C12_MovesTakeOnlyOpponents ==
    call.op = "move_piece" =>
        LET was == Cardinality(Occupied(before.board))
            is == Cardinality(Occupied(board))
        IN /\ is <= was
           /\ printed # "moving" => is = was /\ Removed = {}
           /\ printed = "moving" =>
                 /\ call.to \in Squares
                 /\ is = was - 1 <=> At(before.board, call.to) # None
                 /\ is = was <=> At(before.board, call.to) = None
                 /\ Removed = {At(before.board, call.to)} \ {None}
                 /\ \A q \in Removed :
                       before.pieces[q].color # before.pieces[call.piece].color

\* a Pawn has moved diagonally onto a piece of the other colour, and the board
\* holds one piece fewer than before
C12_Witness ==
    /\ call.op = "move_piece"
    /\ printed = "moving"
    /\ pieces[call.piece].kind = "Pawn"
    /\ call.to[1] # call.from[1]
    /\ Removed # {}
    /\ \A q \in Removed : pieces[q].color # pieces[call.piece].color
    /\ Cardinality(Occupied(board)) = Cardinality(Occupied(before.board)) - 1

====
